---- MODULE Spec2Model ----
(***************************************************************************)
(* State-machine model of final/app.js: the WebXR capability probe, the    *)
(* model selector, App.activateXR / createXRCanvas / onSessionStarted,     *)
(* App.onSelect with its loader callbacks, and App.onXRFrame.              *)
(*                                                                         *)
(* Every handler runs to completion on the single UI thread, so one action *)
(* is one run of a handler from an event (or from the resolution of the    *)
(* promise it awaits) to its next await or its end.  The platform (XR      *)
(* device, GLTF loader, user) is the environment: it chooses when promises *)
(* resolve or reject, what a frame carries and when the session ends.      *)
(***************************************************************************)
EXTENDS Integers, Sequences, FiniteSets, TLC

\* ---- bounds of the model --------------------------------------------------
\* clicks on the enter-AR button (each starts one activateXR run)
MaxActivations == 2
\* taps that pass the guard of onSelect and dispatch a load
MaxLoads == 2
\* hit-test results one frame can carry
MaxHits == 2

\* ---- values ---------------------------------------------------------------
Model1Asset == "../assets/scene.gltf"
Model2Asset == "../assets/sceneD.gltf"
Assets == {Model1Asset, Model2Asset}
NoAsset == "undefined"

\* the asset reference bound to a selection button (0: no button clicked yet)
DefaultAsset == Model1Asset
ButtonAsset(b) == CASE b = 1 -> Model1Asset
                    [] b = 2 -> Model2Asset
                    [] OTHER -> DefaultAsset

Activations == 1..MaxActivations
\* a session, canvas, scene ... is named by the activation that created it
Unset == 0

\* positions a hit pose can report, as <<x, y, z>>
Positions == {<<0, 0, -1>>, <<1, 2, -3>>}
Origin == <<0, 0, 0>>
\* XRHitTestResult.getPose may return null
NullPose == <<>>
HitPoses == Positions \cup {NullPose}
\* the views a viewer pose can carry; NoPose: getViewerPose returned null
Views == {"viewA"}
NoPose == "null"
NoView == "identity"

\* the result lists a frame can carry: each result is named by the pose its
\* getPose returns; only the first result's getPose is ever called, so only the
\* first may be the null pose
RECURSIVE Extend(_, _)
Extend(lists, n) ==
    IF n = 0 THEN lists
    ELSE Extend(lists \cup {Append(l, p) : l \in lists, p \in Positions}, n - 1)

HitResultLists == {<<>>} \cup Extend({<<p>> : p \in HitPoses}, MaxHits - 1)

\* what a frame hands the callback: a view and the hit results, or no pose;
\* without a pose the results are never asked for, so it is enough to tell
\* whether there would have been any
FrameInputs ==
    (Views \X HitResultLists) \cup ({NoPose} \X ({<<>>} \cup {<<p>> : p \in Positions}))

VARIABLES
    probePc,            \* position of the capability probe (lines 20-27)
    probeResult,        \* how the probe ended
    wired,              \* activateXR is the click handler of #enter-ar
    noXR,               \* calls of onNoXRDevice, per caller ("probe" or an activation)
    selectedModel,      \* line 29
    lastClicked,        \* history: the selection button clicked last (0: none)
    modelPlaced,        \* this.modelPlaced
    actPc,              \* position of each activateXR run
    failedAt,           \* history: the step at which a run failed
    actLog,             \* history: what each run left behind
    sessState,          \* platform: state of the session each run was granted
    requestSessionCalls,\* history: calls of navigator.xr.requestSession
    xrSession,          \* this.xrSession
    canvas,             \* this.canvas
    gl,                 \* this.gl
    attached,           \* canvases appended to document.body
    bodyClass,          \* document.body.classList
    renderer, scene, camera, reticle, shadowMesh,
    localReferenceSpace, viewerSpace, hitTestSource,
    pendingFrames,      \* platform: animation-frame callbacks pending per session
    selectListener,     \* platform: onSelect listens for "select" on the session
    framebuffer,        \* the framebuffer bound by the last frame
    stabilized,         \* this.stabilized
    everHit,            \* history: some frame produced a nonempty hit-test result
    lastFrame,          \* history: what the last run of onXRFrame got and rendered
    loads,              \* loader.load calls: asset, outcome, history of the race
    firstOk,            \* history: the load whose success callback first got a scene
    placed,             \* clones added to a scene, in order
    tapIgnored          \* history: some tap hit the guard of line 93

vars == <<probePc, probeResult, wired, noXR, selectedModel, lastClicked,
          modelPlaced, actPc, failedAt, actLog, sessState, requestSessionCalls,
          xrSession, canvas, gl, attached, bodyClass, renderer, scene, camera,
          reticle, shadowMesh, localReferenceSpace, viewerSpace, hitTestSource,
          pendingFrames, selectListener, framebuffer, stabilized, everHit,
          lastFrame, loads, firstOk, placed, tapIgnored>>

probeVars == <<probePc, probeResult, wired>>
selVars   == <<selectedModel, lastClicked>>
actVars   == <<actPc, failedAt, actLog, sessState, requestSessionCalls, xrSession,
               canvas, gl, attached, renderer, scene, camera, reticle, shadowMesh,
               localReferenceSpace, viewerSpace, hitTestSource, selectListener>>
frameVars == <<framebuffer, stabilized, everHit, lastFrame>>
loadVars  == <<loads, firstOk, placed, tapIgnored, modelPlaced>>

\* ---- collaborators that are not part of app.js ----------------------------
\* new Reticle(): hidden, at the origin, until a hit result moves it
NewReticle == [visible |-> FALSE, position |-> Origin]
\* DemoUtils.createLitScene(): the scene may or may not hold a 'shadowMesh' child
LitSceneShadow(present) == [present |-> present, y |-> 9]

\* no frame has run yet.  noHits: the frame asked for hit-test results and got
\* none; renders: the calls of renderer.render it issued.
NoFrame == [noHits |-> FALSE, renders |-> 0]

\* onNoXRDevice(), called by who
OnNoXRDevice(who) == noXR' = [noXR EXCEPT ![who] = @ + 1]

Init ==
    /\ probePc = "start"
    /\ probeResult = "none"
    /\ wired = FALSE
    /\ noXR = [w \in {0} \cup Activations |-> 0]
    /\ selectedModel = DefaultAsset
    /\ lastClicked = 0
    /\ modelPlaced = FALSE
    /\ actPc = [a \in Activations |-> "idle"]
    /\ failedAt = [a \in Activations |-> "none"]
    /\ actLog = [a \in Activations |-> {}]
    /\ sessState = [a \in Activations |-> "none"]
    /\ requestSessionCalls = 0
    /\ xrSession = Unset
    /\ canvas = Unset
    /\ gl = Unset
    /\ attached = {}
    /\ bodyClass = {}
    /\ renderer = Unset
    /\ scene = Unset
    /\ camera = NoView
    /\ reticle = NewReticle
    /\ shadowMesh = LitSceneShadow(FALSE)
    /\ localReferenceSpace = Unset
    /\ viewerSpace = Unset
    /\ hitTestSource = Unset
    /\ pendingFrames = [a \in Activations |-> 0]
    /\ selectListener = [a \in Activations |-> FALSE]
    /\ framebuffer = Unset
    /\ stabilized = FALSE
    /\ everHit = FALSE
    /\ lastFrame = NoFrame
    /\ loads = <<>>
    /\ firstOk = 0
    /\ placed = <<>>
    /\ tapIgnored = FALSE

\* the caller id of the probe in noXR
Probe == 0

\* ---- capability probe (lines 20-27) ---------------------------------------
\* The synchronous part of the async function: without navigator.xr (or without
\* isSessionSupported) the && chain is falsy and the else branch runs at once;
\* otherwise the function suspends on the query.
ProbeStart(apiPresent) ==
    /\ probePc = "start"
    /\ IF apiPresent
       THEN /\ probePc' = "awaiting"
            /\ UNCHANGED <<probeResult, noXR>>
       ELSE /\ probePc' = "done"
            /\ probeResult' = "absent"
            /\ OnNoXRDevice(Probe)
    /\ UNCHANGED <<wired, selVars, actVars, bodyClass, pendingFrames, frameVars, loadVars>>

\* isSessionSupported resolves with `supported`
ProbeResolveWiresAlways(supported) ==
    /\ probePc = "awaiting"
    /\ probePc' = "done"
    /\ wired' = TRUE
    /\ IF supported
       THEN /\ probeResult' = "supported"
            /\ UNCHANGED noXR
       ELSE /\ probeResult' = "unsupported"
            /\ OnNoXRDevice(Probe)
    /\ UNCHANGED <<selVars, actVars, bodyClass, pendingFrames, frameVars, loadVars>>

ProbeResolve(supported) ==
    /\ probePc = "awaiting"
    /\ probePc' = "done"
    /\ IF supported
       THEN /\ probeResult' = "supported"
            /\ wired' = TRUE
            /\ UNCHANGED noXR
       ELSE /\ probeResult' = "unsupported"
            /\ OnNoXRDevice(Probe)
            /\ UNCHANGED wired
    /\ UNCHANGED <<selVars, actVars, bodyClass, pendingFrames, frameVars, loadVars>>

\* isSessionSupported rejects: the await throws inside the async function, which
\* has no try/catch, so neither branch of the if runs
ProbeReject ==
    /\ probePc = "awaiting"
    /\ probePc' = "done"
    /\ probeResult' = "rejected"
    /\ UNCHANGED <<wired, noXR, selVars, actVars, bodyClass, pendingFrames,
                   frameVars, loadVars>>

\* ---- model selector (lines 29-39) -----------------------------------------
Model1Click ==
    /\ probePc # "start"
    /\ selectedModel' = Model1Asset
    /\ lastClicked' = 1
    /\ UNCHANGED <<probeVars, noXR, actVars, bodyClass, pendingFrames, frameVars, loadVars>>

Model2ClickSelectsFirst ==
    /\ probePc # "start"
    /\ selectedModel' = Model1Asset
    /\ lastClicked' = 2
    /\ UNCHANGED <<probeVars, noXR, actVars, bodyClass, pendingFrames, frameVars, loadVars>>

Model2Click ==
    /\ probePc # "start"
    /\ selectedModel' = Model2Asset
    /\ lastClicked' = 2
    /\ UNCHANGED <<probeVars, noXR, actVars, bodyClass, pendingFrames, frameVars, loadVars>>

\* ---- activation (lines 46-89) ---------------------------------------------
\* click on #enter-ar: activateXR runs up to `await requestSession` (lines 47-50).
\* Runs are numbered in the order of the clicks.
EnterARClick(a) ==
    /\ wired
    /\ actPc[a] = "idle"
    /\ \A b \in Activations : b < a => actPc[b] # "idle"
    /\ actPc' = [actPc EXCEPT ![a] = "requestSession"]
    /\ requestSessionCalls' = requestSessionCalls + 1
    /\ UNCHANGED <<probeVars, noXR, selVars, failedAt, actLog, sessState, xrSession,
                   canvas, gl, attached, renderer, scene, camera, reticle, shadowMesh,
                   localReferenceSpace, viewerSpace, hitTestSource, selectListener,
                   bodyClass, pendingFrames, frameVars, loadVars>>

\* the catch block of activateXR (lines 61-64), entered from `step`
CatchBlock(a, step) ==
    /\ actPc' = [actPc EXCEPT ![a] = "failed"]
    /\ failedAt' = [failedAt EXCEPT ![a] = step]
    /\ OnNoXRDevice(a)

\* createXRCanvas (lines 67-77): the canvas is appended before the context is
\* asked for; with no context `new XRWebGLLayer` throws
CreateXRCanvas(a, ctxOk) ==
    /\ canvas' = a
    /\ attached' = attached \cup {a}
    /\ gl' = IF ctxOk THEN a ELSE Unset

\* setupThreeJs (lines 151-168)
SetupThreeJs(a, shadow) ==
    /\ renderer' = a
    /\ scene' = a
    /\ reticle' = NewReticle
    /\ shadowMesh' = LitSceneShadow(shadow)
    /\ camera' = NoView

\* requestSession resolves: lines 50-60 and 80-83 run up to the first await of
\* onSessionStarted.  The platform grants an immersive session only while no
\* other one is active.  outcome: which synchronous step throws, if any.
SessionResolve(a, outcome, shadow) ==
    /\ actPc[a] = "requestSession"
    /\ \A b \in Activations : sessState[b] # "active"
    /\ xrSession' = a
    /\ sessState' = [sessState EXCEPT ![a] = "active"]
    /\ CreateXRCanvas(a, outcome # "noContext")
    /\ CASE outcome = "noContext" ->
              /\ CatchBlock(a, "createXRCanvas")
              /\ actLog' = [actLog EXCEPT ![a] = {"canvas"}]
              /\ UNCHANGED <<bodyClass, renderer, scene, reticle, shadowMesh, camera>>
         [] outcome = "noRenderer" ->
              /\ bodyClass' = bodyClass \cup {"ar"}
              /\ CatchBlock(a, "setupThreeJs")
              /\ actLog' = [actLog EXCEPT ![a] = {"canvas", "ar"}]
              /\ UNCHANGED <<renderer, scene, reticle, shadowMesh, camera>>
         [] OTHER ->
              /\ bodyClass' = bodyClass \cup {"ar"}
              /\ SetupThreeJs(a, shadow)
              /\ actPc' = [actPc EXCEPT ![a] = "local"]
              /\ actLog' = [actLog EXCEPT ![a] = {"canvas", "ar"}]
              /\ UNCHANGED <<failedAt, noXR>>
    /\ UNCHANGED <<probeVars, selVars, requestSessionCalls, localReferenceSpace,
                   viewerSpace, hitTestSource, selectListener, pendingFrames,
                   frameVars, loadVars>>

\* requestSession rejects: the await at line 50 throws before the assignment
SessionRejectUncaught(a) ==
    /\ actPc[a] = "requestSession"
    /\ actPc' = [actPc EXCEPT ![a] = "failed"]
    /\ failedAt' = [failedAt EXCEPT ![a] = "requestSession"]
    /\ UNCHANGED <<probeVars, noXR, selVars, actLog, sessState, requestSessionCalls,
                   xrSession, canvas, gl, attached, renderer, scene, camera, reticle,
                   shadowMesh, localReferenceSpace, viewerSpace, hitTestSource,
                   selectListener, bodyClass, pendingFrames, frameVars, loadVars>>

SessionReject(a) ==
    /\ actPc[a] = "requestSession"
    /\ CatchBlock(a, "requestSession")
    /\ UNCHANGED <<probeVars, selVars, actLog, sessState, requestSessionCalls,
                   xrSession, canvas, gl, attached, renderer, scene, camera, reticle,
                   shadowMesh, localReferenceSpace, viewerSpace, hitTestSource,
                   selectListener, bodyClass, pendingFrames, frameVars, loadVars>>

\* requestReferenceSpace('local') resolves (line 83), 'viewer' is requested
LocalSpaceResolveUnassigned(a) ==
    /\ actPc[a] = "local"
    /\ sessState[a] = "active"
    /\ actPc' = [actPc EXCEPT ![a] = "viewer"]
    /\ UNCHANGED <<probeVars, noXR, selVars, failedAt, actLog, sessState,
                   requestSessionCalls, xrSession, canvas, gl, attached, renderer,
                   scene, camera, reticle, shadowMesh, localReferenceSpace,
                   viewerSpace, hitTestSource, selectListener, bodyClass,
                   pendingFrames, frameVars, loadVars>>

LocalSpaceResolve(a) ==
    /\ actPc[a] = "local"
    /\ sessState[a] = "active"
    /\ localReferenceSpace' = a
    /\ actPc' = [actPc EXCEPT ![a] = "viewer"]
    /\ UNCHANGED <<probeVars, noXR, selVars, failedAt, actLog, sessState,
                   requestSessionCalls, xrSession, canvas, gl, attached, renderer,
                   scene, camera, reticle, shadowMesh, viewerSpace, hitTestSource,
                   selectListener, bodyClass, pendingFrames, frameVars, loadVars>>

\* requestReferenceSpace('viewer') resolves (line 84), the hit-test source is requested
ViewerSpaceResolve(a) ==
    /\ actPc[a] = "viewer"
    /\ sessState[a] = "active"
    /\ viewerSpace' = a
    /\ actPc' = [actPc EXCEPT ![a] = "hitTestSource"]
    /\ UNCHANGED <<probeVars, noXR, selVars, failedAt, actLog, sessState,
                   requestSessionCalls, xrSession, canvas, gl, attached, renderer,
                   scene, camera, reticle, shadowMesh, localReferenceSpace,
                   hitTestSource, selectListener, bodyClass, pendingFrames,
                   frameVars, loadVars>>

\* requestHitTestSource resolves (line 85); lines 86-88 register the first frame
\* callback and the select listener on this.xrSession (addEventListener keeps
\* one copy of a listener)
HitTestSourceResolve(a) ==
    /\ actPc[a] = "hitTestSource"
    /\ sessState[a] = "active"
    /\ hitTestSource' = a
    /\ pendingFrames' = [pendingFrames EXCEPT ![xrSession] = @ + 1]
    /\ selectListener' = [selectListener EXCEPT ![xrSession] = TRUE]
    /\ actLog' = [actLog EXCEPT ![a] = @ \cup {"frame", "select"}]
    /\ actPc' = [actPc EXCEPT ![a] = "done"]
    /\ UNCHANGED <<probeVars, noXR, selVars, failedAt, sessState,
                   requestSessionCalls, xrSession, canvas, gl, attached, renderer,
                   scene, camera, reticle, shadowMesh, localReferenceSpace,
                   viewerSpace, bodyClass, frameVars, loadVars>>

\* one of the three awaits of onSessionStarted rejects
StepReject(a) ==
    /\ actPc[a] \in {"local", "viewer", "hitTestSource"}
    /\ CatchBlock(a, actPc[a])
    /\ UNCHANGED <<probeVars, selVars, actLog, sessState, requestSessionCalls,
                   xrSession, canvas, gl, attached, renderer, scene, camera, reticle,
                   shadowMesh, localReferenceSpace, viewerSpace, hitTestSource,
                   selectListener, bodyClass, pendingFrames, frameVars, loadVars>>

\* the platform ends the session (the user leaves AR); app.js does not observe it
SessionEnd(a) ==
    /\ sessState[a] = "active"
    /\ sessState' = [sessState EXCEPT ![a] = "ended"]
    /\ UNCHANGED <<probeVars, noXR, selVars, actPc, failedAt, actLog,
                   requestSessionCalls, xrSession, canvas, gl, attached, renderer,
                   scene, camera, reticle, shadowMesh, localReferenceSpace,
                   viewerSpace, hitTestSource, selectListener, bodyClass,
                   pendingFrames, frameVars, loadVars>>

\* ---- frame loop (lines 122-149) --------------------------------------------
\* line 124: the platform has taken the callback of session s off its list to
\* run it; the callback registers itself again, on this.xrSession
RequestAnimationFrameDropped(s) ==
    pendingFrames' = [pendingFrames EXCEPT ![s] = @ - 1]

RequestAnimationFrame(s) ==
    pendingFrames' = [[pendingFrames EXCEPT ![s] = @ - 1] EXCEPT ![xrSession] = @ + 1]

\* lines 137-140, reached only with a pose
StabilizeAnyFrame(hitTestResults) ==
    IF ~stabilized
    THEN /\ stabilized' = TRUE
         /\ bodyClass' = bodyClass \cup {"stabilized"}
    ELSE UNCHANGED <<stabilized, bodyClass>>

Stabilize(hitTestResults) ==
    IF ~stabilized /\ Len(hitTestResults) > 0
    THEN /\ stabilized' = TRUE
         /\ bodyClass' = bodyClass \cup {"stabilized"}
    ELSE UNCHANGED <<stabilized, bodyClass>>

\* lines 141-146, reached only with a pose: hitTestResults[0].getPose may be
\* null, and then line 144 throws after line 143 made the reticle visible
UpdateReticleHidesOnMiss(hitTestResults) ==
    reticle' = IF Len(hitTestResults) = 0 THEN [reticle EXCEPT !.visible = FALSE]
               ELSE IF hitTestResults[1] = NullPose
                    THEN [reticle EXCEPT !.visible = TRUE]
                    ELSE [visible |-> TRUE, position |-> hitTestResults[1]]

UpdateReticle(hitTestResults) ==
    reticle' = IF Len(hitTestResults) = 0 THEN reticle
               ELSE IF hitTestResults[1] = NullPose
                    THEN [reticle EXCEPT !.visible = TRUE]
                    ELSE [visible |-> TRUE, position |-> hitTestResults[1]]

\* line 147: renderer.render is reached with a pose, unless line 144 threw
RenderCalls(pose, hitTestResults) ==
    IF pose # NoPose /\ ~(Len(hitTestResults) > 0 /\ hitTestResults[1] = NullPose)
    THEN 1 ELSE 0

\* The platform runs a pending callback of the active session s and hands it a
\* frame: pose is the view of the viewer pose (NoPose: none), hits the list
\* getHitTestResults returns when it is asked.
OnXRFrame(s, pose, hits) ==
    /\ sessState[s] = "active"
    /\ pendingFrames[s] > 0
    /\ RequestAnimationFrame(s)
    /\ framebuffer' = xrSession
    /\ IF pose # NoPose
       THEN /\ camera' = pose
            /\ Stabilize(hits)
            /\ UpdateReticle(hits)
            /\ everHit' = (everHit \/ hits # <<>>)
       ELSE UNCHANGED <<camera, stabilized, bodyClass, reticle, everHit>>
    /\ lastFrame' = [noHits |-> (pose # NoPose /\ hits = <<>>),
                     renders |-> RenderCalls(pose, hits)]
    /\ UNCHANGED <<probeVars, noXR, selVars, actPc, failedAt, actLog, sessState,
                   requestSessionCalls, xrSession, canvas, gl, attached, renderer,
                   scene, shadowMesh, localReferenceSpace, viewerSpace,
                   hitTestSource, selectListener, loadVars>>

\* ---- placement (lines 91-120) ---------------------------------------------
Resolved == {i \in 1..Len(loads) : loads[i].status # "pending"}

\* a "select" event of the active session s: onSelect up to loader.load.
\* early: no load has resolved yet when this one is dispatched.
OnSelectLoadsDefault(s) ==
    /\ sessState[s] = "active"
    /\ selectListener[s]
    /\ IF modelPlaced
       THEN /\ tapIgnored' = TRUE
            /\ UNCHANGED loads
       ELSE /\ Len(loads) < MaxLoads
            /\ loads' = Append(loads, [asset |-> DefaultAsset,
                                       status |-> "pending",
                                       early |-> (Resolved = {})])
            /\ UNCHANGED tapIgnored
    /\ UNCHANGED <<probeVars, noXR, selVars, actVars, bodyClass, pendingFrames,
                   frameVars, firstOk, placed, modelPlaced>>

OnSelect(s) ==
    /\ sessState[s] = "active"
    /\ selectListener[s]
    /\ IF modelPlaced
       THEN /\ tapIgnored' = TRUE
            /\ UNCHANGED loads
       ELSE /\ Len(loads) < MaxLoads
            /\ loads' = Append(loads, [asset |-> selectedModel,
                                       status |-> "pending",
                                       early |-> (Resolved = {})])
            /\ UNCHANGED tapIgnored
    /\ UNCHANGED <<probeVars, noXR, selVars, actVars, bodyClass, pendingFrames,
                   frameVars, firstOk, placed, modelPlaced>>

\* lines 99-101: the loader hands the callback the scene of the asset it was
\* given at the tap; hasScene: the file holds a scene (gltf.scene is set)
LoadedModelOfSelection(i, hasScene) == IF hasScene THEN selectedModel ELSE NoAsset
LoadedModel(i, hasScene) == IF hasScene THEN loads[i].asset ELSE NoAsset

\* line 104
ShouldPlaceUnchecked(customModel) == customModel # NoAsset
ShouldPlace(customModel) == ~modelPlaced /\ customModel # NoAsset

\* lines 105-115: clone, copy the reticle's position, add to the scene, align
\* the shadow mesh if the scene has one, set the flag
PlaceModelNoFlag(i, customModel) ==
    /\ placed' = Append(placed, [asset |-> customModel,
                                 position |-> reticle.position,
                                 scene |-> scene,
                                 load |-> i])
    /\ shadowMesh' = IF shadowMesh.present
                     THEN [shadowMesh EXCEPT !.y = reticle.position[2]]
                     ELSE shadowMesh
    /\ UNCHANGED modelPlaced
PlaceModelAtOrigin(i, customModel) ==
    /\ placed' = Append(placed, [asset |-> customModel,
                                 position |-> Origin,
                                 scene |-> scene,
                                 load |-> i])
    /\ shadowMesh' = IF shadowMesh.present
                     THEN [shadowMesh EXCEPT !.y = Origin[2]]
                     ELSE shadowMesh
    /\ modelPlaced' = TRUE
PlaceModel(i, customModel) ==
    /\ placed' = Append(placed, [asset |-> customModel,
                                 position |-> reticle.position,
                                 scene |-> scene,
                                 load |-> i])
    /\ shadowMesh' = IF shadowMesh.present
                     THEN [shadowMesh EXCEPT !.y = reticle.position[2]]
                     ELSE shadowMesh
    /\ modelPlaced' = TRUE

\* the success callback of load i (lines 99-116).  window.customModel is
\* written at line 101 and read at lines 104-106 of the same callback, so it is
\* the local customModel here.
LoadSuccess(i, hasScene) ==
    LET customModel == LoadedModel(i, hasScene)
    IN  /\ i \in 1..Len(loads)
        /\ loads[i].status = "pending"
        /\ IF ShouldPlace(customModel)
           THEN PlaceModel(i, customModel)
           ELSE UNCHANGED <<placed, shadowMesh, modelPlaced>>
        /\ loads' = [loads EXCEPT ![i].status = IF hasScene THEN "ok" ELSE "empty"]
        /\ firstOk' = IF firstOk = 0 /\ hasScene THEN i ELSE firstOk
        /\ UNCHANGED <<probeVars, noXR, selVars, actPc, failedAt, actLog, sessState,
                       requestSessionCalls, xrSession, canvas, gl, attached, renderer,
                       scene, camera, reticle, localReferenceSpace, viewerSpace,
                       hitTestSource, selectListener, bodyClass, pendingFrames,
                       frameVars, tapIgnored>>

\* the error callback of load i (lines 117-119)
LoadErrorGivesUp(i) ==
    /\ i \in 1..Len(loads)
    /\ loads[i].status = "pending"
    /\ loads' = [loads EXCEPT ![i].status = "error"]
    /\ modelPlaced' = TRUE
    /\ UNCHANGED <<probeVars, noXR, selVars, actVars, bodyClass, pendingFrames,
                   frameVars, firstOk, placed, tapIgnored>>

LoadError(i) ==
    /\ i \in 1..Len(loads)
    /\ loads[i].status = "pending"
    /\ loads' = [loads EXCEPT ![i].status = "error"]
    /\ UNCHANGED <<probeVars, noXR, selVars, actVars, bodyClass, pendingFrames,
                   frameVars, firstOk, placed, tapIgnored, modelPlaced>>

\* ---- specification --------------------------------------------------------
Next ==
    \/ \E apiPresent \in BOOLEAN : ProbeStart(apiPresent)
    \/ \E supported \in BOOLEAN : ProbeResolve(supported)
    \/ ProbeReject
    \/ Model1Click
    \/ Model2Click
    \/ \E a \in Activations : EnterARClick(a)
    \/ \E a \in Activations, outcome \in {"ok", "noContext", "noRenderer"},
          shadow \in BOOLEAN : SessionResolve(a, outcome, shadow)
    \/ \E a \in Activations : SessionReject(a)
    \/ \E a \in Activations : LocalSpaceResolve(a)
    \/ \E a \in Activations : ViewerSpaceResolve(a)
    \/ \E a \in Activations : HitTestSourceResolve(a)
    \/ \E a \in Activations : StepReject(a)
    \/ \E a \in Activations : SessionEnd(a)
    \/ \E s \in Activations, f \in FrameInputs : OnXRFrame(s, f[1], f[2])
    \/ \E s \in Activations : OnSelect(s)
    \/ \E i \in 1..MaxLoads, hasScene \in BOOLEAN : LoadSuccess(i, hasScene)
    \/ \E i \in 1..MaxLoads : LoadError(i)

Spec == Init /\ [][Next]_vars

\* One AR session: the enter-AR button is clicked once; taps, loads, selection
\* clicks and frames interleave freely within the session it starts.
NextSession ==
    \/ \E apiPresent \in BOOLEAN : ProbeStart(apiPresent)
    \/ \E supported \in BOOLEAN : ProbeResolve(supported)
    \/ ProbeReject
    \/ Model1Click
    \/ Model2Click
    \/ EnterARClick(1)
    \/ \E outcome \in {"ok", "noContext", "noRenderer"}, shadow \in BOOLEAN :
          SessionResolve(1, outcome, shadow)
    \/ SessionReject(1)
    \/ LocalSpaceResolve(1)
    \/ ViewerSpaceResolve(1)
    \/ HitTestSourceResolve(1)
    \/ StepReject(1)
    \/ SessionEnd(1)
    \/ \E f \in FrameInputs : OnXRFrame(1, f[1], f[2])
    \/ OnSelect(1)
    \/ \E i \in 1..MaxLoads, hasScene \in BOOLEAN : LoadSuccess(i, hasScene)
    \/ \E i \in 1..MaxLoads : LoadError(i)

SpecSession == Init /\ [][NextSession]_vars

\* Activation across clicks: the enter-AR button is clicked up to
\* MaxActivations times, sessions start, run their frame loop and end; no
\* select event arrives.
NextActivation ==
    \/ \E apiPresent \in BOOLEAN : ProbeStart(apiPresent)
    \/ \E supported \in BOOLEAN : ProbeResolve(supported)
    \/ ProbeReject
    \/ Model1Click
    \/ Model2Click
    \/ \E a \in Activations : EnterARClick(a)
    \/ \E a \in Activations, outcome \in {"ok", "noContext", "noRenderer"},
          shadow \in BOOLEAN : SessionResolve(a, outcome, shadow)
    \/ \E a \in Activations : SessionReject(a)
    \/ \E a \in Activations : LocalSpaceResolve(a)
    \/ \E a \in Activations : ViewerSpaceResolve(a)
    \/ \E a \in Activations : HitTestSourceResolve(a)
    \/ \E a \in Activations : StepReject(a)
    \/ \E a \in Activations : SessionEnd(a)
    \/ \E s \in Activations, f \in FrameInputs : OnXRFrame(s, f[1], f[2])

SpecActivation == Init /\ [][NextActivation]_vars

\* ---- claims ---------------------------------------------------------------
AnyTap == \E s \in Activations : OnSelect(s)
AnyLoadResolution ==
    \/ \E i \in 1..MaxLoads, hasScene \in BOOLEAN : LoadSuccess(i, hasScene)
    \/ \E i \in 1..MaxLoads : LoadError(i)

\* C1: at most one clone is ever added to a scene; modelPlaced never goes back
\* to false; once it is true no tap and no load resolution (also of a load
\* dispatched before the flag was set) adds a clone or moves the shadow mesh.
C1_AtMostOnePlacement ==
    /\ [](Len(placed) <= 1)
    /\ [][modelPlaced => modelPlaced']_vars
    /\ [][(modelPlaced /\ (AnyTap \/ AnyLoadResolution))
            => (placed' = placed /\ shadowMesh' = shadowMesh)]_vars

\* the flag is set, a tap was ignored and a load dispatched before the flag was
\* set has succeeded after it without placing anything
C1_Witness ==
    /\ modelPlaced
    /\ tapIgnored
    /\ Len(placed) = 1
    /\ \E i \in 1..Len(loads) : loads[i].status = "ok" /\ placed[1].load # i

\* the loads of two taps that both came before the first load resolved
RacePairs ==
    {<<i, j>> \in (1..Len(loads)) \X (1..Len(loads)) : i < j /\ loads[j].early}
BothSucceeded(pr) == loads[pr[1]].status = "ok" /\ loads[pr[2]].status = "ok"
ClonesOf(i) == {k \in 1..Len(placed) : placed[k].load = i}

\* C2 as stated: when the loads of two taps that both came before the first
\* load resolved both succeed, both place a clone.
C2_RaceBothPlace ==
    \A pr \in RacePairs :
        BothSucceeded(pr) => ClonesOf(pr[1]) # {} /\ ClonesOf(pr[2]) # {}

\* C2 amended: two taps before the first load resolves both pass the guard of
\* line 93 and both dispatch a load, but when both loads succeed only the one
\* whose callback runs first with a scene places a clone: the other stops at
\* the second check of modelPlaced at line 104.
C2_RaceOnePlaces ==
    \A pr \in RacePairs :
        BothSucceeded(pr) =>
            /\ Len(placed) = 1
            /\ placed[1].load = firstOk
            /\ modelPlaced

C2_Witness ==
    \E pr \in RacePairs : BothSucceeded(pr) /\ Len(placed) = 1

\* C3 as stated: whenever a clone is added, its asset is the value selectedModel
\* holds at that moment.
C3_PlacesCurrentSelection ==
    [][Len(placed') > Len(placed) => placed'[Len(placed')].asset = selectedModel]_vars

\* C3 amended: the asset handed to the loader is the value selectedModel holds
\* at the tap, and a clone that is added comes from the asset its own load was
\* handed, whatever the selection has become since.
C3_PlacesSelectionAtTap ==
    /\ [][Len(loads') > Len(loads) => loads'[Len(loads')].asset = selectedModel]_vars
    /\ [](\A k \in 1..Len(placed) : placed[k].asset = loads[placed[k].load].asset)
    /\ [][Len(placed') > Len(placed) =>
            \E i \in 1..Len(loads) :
                /\ loads[i].status = "pending"
                /\ loads'[i].status = "ok"
                /\ placed'[Len(placed')].asset = loads[i].asset]_vars

\* a clone of the second asset is in the scene although only one load was
\* ever dispatched and the first asset is selected now: the selection was
\* changed while (or after) the load was in flight
C3_Witness ==
    /\ Len(placed) = 1
    /\ Len(loads) = 1
    /\ placed[1].asset = Model2Asset
    /\ selectedModel = Model1Asset

\* C4: selectedModel is always one of the two asset references: the default
\* before any click, afterwards the one bound to the button clicked last; only
\* the two button handlers write it.
C4_SelectionFollowsClicks ==
    /\ [](selectedModel \in Assets /\ selectedModel = ButtonAsset(lastClicked))
    /\ [][selectedModel' # selectedModel => (Model1Click \/ Model2Click)]_vars

\* button 2 was clicked last, after a session started, a frame ran and a
\* model was placed
C4_Witness ==
    /\ lastClicked = 2
    /\ selectedModel = Model2Asset
    /\ modelPlaced
    /\ stabilized

\* C5: a run of activateXR whose requestSession rejected called onNoXRDevice
\* exactly once and left nothing: no canvas, no 'ar' class, no frame callback,
\* no select listener.
C5_RejectedSessionLeavesNothing ==
    \A a \in Activations :
        failedAt[a] = "requestSession" =>
            /\ actPc[a] = "failed"
            /\ noXR[a] = 1
            /\ a \notin attached
            /\ actLog[a] = {}
            /\ sessState[a] = "none"
            /\ pendingFrames[a] = 0
            /\ ~selectListener[a]

\* a first run was rejected at requestSession, with nothing in the document
C5_Witness ==
    /\ failedAt[1] = "requestSession"
    /\ attached = {}
    /\ bodyClass = {}

\* C6 as stated: a run of activateXR that failed at any step called
\* onNoXRDevice and left no canvas, no 'ar' class, no frame callback and no
\* select listener behind.
C6_ActivationAtomic ==
    \A a \in Activations :
        actPc[a] = "failed" =>
            /\ noXR[a] = 1
            /\ a \notin attached
            /\ actLog[a] = {}

\* C7: after the probe found no support (the query resolved false or the API is
\* absent) activateXR is not wired, onNoXRDevice was called exactly once and
\* requestSession is never called.
C7_UnsupportedNeverActivates ==
    probeResult \in {"unsupported", "absent"} =>
        /\ ~wired
        /\ noXR[Probe] = 1
        /\ \A a \in Activations : noXR[a] = 0 /\ actPc[a] = "idle"
        /\ requestSessionCalls = 0

\* the query resolved false, and the page went on (a selection button was clicked)
C7_Witness ==
    /\ probeResult = "unsupported"
    /\ lastClicked = 2

\* C8 as stated: after isSessionSupported rejected, onNoXRDevice has been called
\* and activateXR is not wired.
C8_RejectedProbeFallsBack ==
    probeResult = "rejected" => noXR[Probe] = 1 /\ ~wired

\* C9: from the end of a successful activation on, exactly one frame callback
\* is pending on its session between any two frames, with or without a pose,
\* with or without hit results; a session whose activation did not complete
\* has none.
C9_OnePendingFrame ==
    \A s \in Activations :
        pendingFrames[s] = IF actPc[s] = "done" THEN 1 ELSE 0

\* frames have run in session 1 (the framebuffer is bound), all of them
\* without a pose (the camera was never loaded), and one callback is pending
C9_Witness ==
    /\ actPc[1] = "done"
    /\ framebuffer = 1
    /\ scene = 1
    /\ camera = NoView
    /\ pendingFrames[1] = 1

\* C10: stabilized (and the 'stabilized' class) is set exactly from the first
\* frame on that produced a nonempty hit-test result, and is never unset.
C10_StabilizedOnce ==
    /\ [](stabilized = everHit /\ (("stabilized" \in bodyClass) = stabilized))
    /\ [][stabilized => stabilized']_vars
    /\ [][("stabilized" \in bodyClass) => ("stabilized" \in bodyClass')]_vars

\* stabilized is still set after a second activation replaced the reticle
C10_Witness ==
    /\ stabilized
    /\ actPc[2] = "done"
    /\ ~reticle.visible


\* a frame with a pose whose hit-test result list is empty / is not empty
EmptyFrame == \E s \in Activations, v \in Views : OnXRFrame(s, v, <<>>)
HitFrame ==
    \E s \in Activations, v \in Views, hits \in HitResultLists \ {<<>>} :
        OnXRFrame(s, v, hits)

C12_HitMovesReticle ==
    [][\A s \in Activations, v \in Views, hits \in HitResultLists \ {<<>>} :
          OnXRFrame(s, v, hits) =>
              reticle'.visible /\ reticle'.position = hits[1]]_vars


AnyLoadError == \E i \in 1..MaxLoads : LoadError(i)
SomeLoadFailed == \E i \in 1..Len(loads) : loads[i].status = "error"

\* C13: the error callback of a load does not set modelPlaced, adds nothing to
\* the scene and does not call onNoXRDevice; after a failure the first load to
\* succeed still places the model.
C13_LoadFailureRetryable ==
    /\ [][AnyLoadError => /\ modelPlaced' = modelPlaced
                          /\ placed' = placed
                          /\ shadowMesh' = shadowMesh
                          /\ noXR' = noXR
                          /\ bodyClass' = bodyClass]_vars
    /\ []((SomeLoadFailed /\ firstOk # 0) =>
            /\ modelPlaced
            /\ Len(placed) = 1
            /\ placed[1].load = firstOk)

\* the first load failed, the user tapped again after the failure and the
\* second load placed the model
C13_Witness ==
    /\ Len(loads) = 2
    /\ loads[1].status = "error"
    /\ ~loads[2].early
    /\ Len(placed) = 1
    /\ placed[1].load = 2


\* C14: a clone is added at the position the reticle has when the load
\* resolves, modelPlaced becomes true in the same step, and a placed clone
\* never moves afterwards, whatever later frames do to the reticle.
C14_PlacedAtReticle ==
    /\ [][Len(placed') > Len(placed) =>
            /\ Len(placed') = Len(placed) + 1
            /\ placed'[Len(placed')].position = reticle.position
            /\ reticle' = reticle
            /\ ~modelPlaced
            /\ modelPlaced']_vars
    /\ [][\A k \in 1..Len(placed) : k <= Len(placed') /\ placed'[k] = placed[k]]_vars

\* the clone sits at one hit position while a later frame has moved the
\* reticle to another
C14_Witness ==
    /\ Len(placed) = 1
    /\ placed[1].position \in Positions
    /\ reticle.position \in Positions
    /\ reticle.position # placed[1].position


\* nothing of onSessionStarted's lines 86-87 has happened for session a
NotYetLooping(a) == pendingFrames[a] = 0 /\ ~selectListener[a]
\* setupThreeJs has run for session a (renderer, scene, camera and reticle)
SceneReady(a) == "ar" \in bodyClass /\ gl = a /\ renderer = a /\ scene = a

\* C15: onSessionStarted adds the 'ar' class, sets up the scene, then acquires
\* the local space, the viewer space and the hit-test source, and only then
\* registers the first frame callback and the select listener; so whenever a
\* frame or a select event of a session can run, the renderer, the scene, both
\* reference spaces and the hit-test source of that session are in place.
C15_StartupOrder ==
    \A a \in Activations :
        /\ failedAt[a] = "createXRCanvas" => "ar" \notin actLog[a]
        /\ failedAt[a] = "setupThreeJs" => "ar" \in actLog[a] /\ scene # a
        /\ (sessState[a] = "active" /\ actPc[a] = "local") =>
              /\ SceneReady(a)
              /\ localReferenceSpace # a /\ viewerSpace # a /\ hitTestSource # a
              /\ NotYetLooping(a)
        /\ (sessState[a] = "active" /\ actPc[a] = "viewer") =>
              /\ SceneReady(a)
              /\ localReferenceSpace = a /\ viewerSpace # a /\ hitTestSource # a
              /\ NotYetLooping(a)
        /\ (sessState[a] = "active" /\ actPc[a] = "hitTestSource") =>
              /\ SceneReady(a)
              /\ localReferenceSpace = a /\ viewerSpace = a /\ hitTestSource # a
              /\ NotYetLooping(a)
        /\ (sessState[a] = "active" /\ (pendingFrames[a] > 0 \/ selectListener[a])) =>
              /\ xrSession = a
              /\ SceneReady(a)
              /\ localReferenceSpace = a /\ viewerSpace = a /\ hitTestSource = a
              /\ pendingFrames[a] > 0 /\ selectListener[a]

\* a second session is running its frame loop with a pose
C15_Witness ==
    /\ actPc[2] = "done"
    /\ sessState[2] = "active"
    /\ framebuffer = 2
    /\ camera \in Views


PoseLostFrame ==
    \E s \in Activations, hits \in HitResultLists : OnXRFrame(s, NoPose, hits)
PoseFrame ==
    \E s \in Activations, v \in Views, hits \in HitResultLists : OnXRFrame(s, v, hits)
\* the part of C16 about frames without a viewer pose
PoseLostChangesNothing ==
    [][PoseLostFrame => /\ pendingFrames' = pendingFrames
                        /\ framebuffer' = xrSession
                        /\ stabilized' = stabilized
                        /\ bodyClass' = bodyClass
                        /\ reticle' = reticle
                        /\ camera' = camera
                        /\ lastFrame'.renders = 0]_vars

\* C16: a frame without a viewer pose only re-registers the callback and binds
\* the framebuffer (stabilized flag, reticle and camera unchanged, no render
\* call, whatever the hit-test source holds); a frame with a pose issues
\* exactly one render call.
C16_PoseLostFrame ==
    /\ PoseLostChangesNothing
    /\ [][PoseFrame => lastFrame'.renders = 1]_vars


AnySelectionClick == Model1Click \/ Model2Click

\* C17: the loader is handed the value of selectedModel at the tap; a selection
\* click never changes a load that is in flight; and with several loads in
\* flight the clone that is placed comes from the load that succeeds first.
C17_InFlightLoadKeepsAsset ==
    /\ [][AnyTap /\ loads' # loads =>
            /\ loads' = Append(loads, loads'[Len(loads')])
            /\ loads'[Len(loads')].asset = selectedModel
            /\ loads'[Len(loads')].status = "pending"]_vars
    /\ [][AnySelectionClick => loads' = loads]_vars
    /\ [][\A i \in 1..Len(loads) : loads'[i].asset = loads[i].asset]_vars
    /\ [](firstOk # 0 => /\ Len(placed) >= 1
                         /\ placed[1].load = firstOk
                         /\ placed[1].asset = loads[firstOk].asset)

\* two loads of different assets were in flight together, the later tap's load
\* succeeded first and its asset is the one in the scene
C17_Witness ==
    /\ Len(loads) = 2
    /\ loads[1].asset # loads[2].asset
    /\ loads[1].status = "ok"
    /\ firstOk = 2
    /\ Len(placed) = 1
    /\ placed[1].asset = loads[2].asset
    /\ selectedModel = loads[1].asset


\* sessions whose frame loop is running: live and with a callback registered
RunningLoops == {s \in Activations : sessState[s] = "active" /\ pendingFrames[s] > 0}
\* no activation has got its session yet
NoSessionGranted == \A a \in Activations : sessState[a] = "none"

\* the parts of C18 about the handle and the frame loop
OneHandleOneLoop ==
    /\ \A a \in Activations : sessState[a] = "active" => xrSession = a
    /\ Cardinality(RunningLoops) <= 1
    /\ NoSessionGranted => xrSession = Unset

\* C18: however often the enter-AR button is clicked, the controller holds at
\* most one session handle, at most one canvas is ever attached to the
\* document, at most one frame loop runs, and the handle is unset before the
\* first successful activation.
C18_OneSessionOneCanvas ==
    /\ OneHandleOneLoop
    /\ Cardinality(attached) <= 1


\* C19: a clone is added to the scene only while the reticle is visible, at a
\* position a hit-test result reported; a tap made before any surface was
\* detected never places a model at the reticle's initial position.
C19_PlacedOnlyOnSurface ==
    [][Len(placed') > Len(placed) =>
            /\ reticle.visible
            /\ everHit
            /\ placed'[Len(placed')].position \in Positions]_vars

====
